---- MODULE Spec2Model ----
(***************************************************************************)
(* Recurring task template engine of TodoList-Redo: the task router        *)
(* (core/domain/taskActions.ts), the permanent task pipeline               *)
(* (features/permanentTask/utils/permanentTaskActions.ts), the factory     *)
(* (permanentTaskFactory.ts) and the SQLite storage layer                  *)
(* (permanentTaskStorage / taskStorage).                                   *)
(*                                                                         *)
(* Dates are whole days since 1970-01-01 (the code's millisecond           *)
(* timestamps divided by 86400000); 0 stands for an absent date, which is  *)
(* also falsy in the code.  Identifiers are small integers: instances      *)
(* 1..MaxInstances, templates TplBase+1..TplBase+MaxTemplates.             *)
(***************************************************************************)
EXTENDS Integers, Sequences, FiniteSets, TLC

\* ---------------------------------------------------------------- bounds
MaxTemplates   == 1
MaxInstances   == 2
MaxCreated     == 1
MaxCount       == 3
MaxCompletions == 2
MaxSteps       == 5
TplBase        == 100
TaskBase       == 200
MaxTasks       == 2
MaxRecordings  == 3
MaxCalls       == 2

Titles   == {"A"}
NewTitles == {"B"}
\* 2024-01-08 (a Monday)
DueDates == {0, 19730}
\* 2024-01-03 (a Wednesday), the values Date.now() takes
NowDays  == {19725}
PushDays == {1, 7}
\* locations a template is created with ("" for none) and moved to
CreateLocations == {""}
NewLocations == {"L"}
\* the kinds createTask is called with besides permanent
PlainKinds == {"one_off", "preset"}
\* latest due date the model follows (2024-01-15)
MaxDay   == 19731

\* ---------------------------------------------------------------- calendar
IsLeap(y) == (y % 4 = 0 /\ y % 100 # 0) \/ y % 400 = 0

DaysInMonth(y, m) ==
  IF m = 2 THEN (IF IsLeap(y) THEN 29 ELSE 28)
  ELSE IF m \in {4, 6, 9, 11} THEN 30 ELSE 31

DaysInYear(y) == IF IsLeap(y) THEN 366 ELSE 365

\* days from 1970-01-01 to the first day of year y (y >= 1970)
DaysBeforeYear(y) ==
  LET n == y - 1970
      leaps == ((y - 1) \div 4 - 1969 \div 4) - ((y - 1) \div 100 - 1969 \div 100)
               + ((y - 1) \div 400 - 1969 \div 400)
  IN  365 * n + leaps

RECURSIVE DaysBeforeMonth(_, _)
DaysBeforeMonth(y, m) ==
  IF m = 1 THEN 0 ELSE DaysBeforeMonth(y, m - 1) + DaysInMonth(y, m - 1)

\* new Date(y, m, d) with JavaScript's overflow rules: month 13 is January of
\* the next year, and a day beyond the month's end runs on into later months
MakeDate(y, m, d) ==
  LET yy == y + (m - 1) \div 12
      mm == ((m - 1) % 12) + 1
  IN  DaysBeforeYear(yy) + DaysBeforeMonth(yy, mm) + d - 1

YearOf(day) ==
  CHOOSE y \in 1970..2100 : DaysBeforeYear(y) <= day /\ day < DaysBeforeYear(y + 1)

MonthOf(day) ==
  LET y == YearOf(day)
  IN  CHOOSE m \in 1..12 :
        /\ MakeDate(y, m, 1) <= day
        /\ day < MakeDate(y, m, 1) + DaysInMonth(y, m)

DayOfMonth(day) == day - MakeDate(YearOf(day), MonthOf(day), 1) + 1

\* Date.prototype.getDay: 0 = Sunday .. 6 = Saturday; 1970-01-01 was a Thursday
GetDay(day) == (day + 4) % 7

\* ---------------------------------------------------------------- autoRepeat
Undef == -1

\* autoRepeat undefined
NoRepeat == [present |-> FALSE, enabled |-> FALSE, interval |-> "undefined",
             dayOfWeek |-> Undef, dayOfMonth |-> Undef]

\* an autoRepeat object; the code stores and copies its "enabled" key and
\* never reads it
Repeat(i, dow, dom) == [present |-> TRUE, enabled |-> TRUE, interval |-> i,
                        dayOfWeek |-> dow, dayOfMonth |-> dom]

\* { ...a, enabled: false }
Disabled(a) == [a EXCEPT !.enabled = FALSE]

\* the configurations a template is created with; the third one is what
\* CreatePermanentTaskScreen builds ({enabled, frequency}: no interval)
RepeatConfigs ==
  { NoRepeat,
    Repeat("weekly", 1, Undef),
    Repeat("undefined", Undef, Undef),
    Disabled(Repeat("weekly", 1, Undef)) }

\* the recurrence configs a template is changed to
NewRepeats == {Repeat("daily", Undef, Undef)}

\* JSON.stringify(template.autoRepeat) / null
SerializeRepeat(a) ==
  IF a.present THEN <<a.enabled, a.interval, a.dayOfWeek, a.dayOfMonth>>
  ELSE <<>>

\* row.autoRepeat ? JSON.parse(row.autoRepeat) : undefined
ParseRepeat(s) ==
  IF s = <<>> THEN NoRepeat
  ELSE [present |-> TRUE, enabled |-> s[1], interval |-> s[2],
        dayOfWeek |-> s[3], dayOfMonth |-> s[4]]

\* ---------------------------------------------------------------- scheduler
\* JavaScript's % : the result takes the sign of the dividend
JsRem(a, n) == IF a >= 0 THEN a % n ELSE 0 - ((0 - a) % n)

\* daysToAdd without the + 7 that keeps the dividend positive
DaysToAdd_NoPlusSeven(dayOfWeek, currentDay) == JsRem(dayOfWeek - currentDay, 7)

\* const daysToAdd = (dayOfWeek - currentDay + 7) % 7
DaysToAdd(dayOfWeek, currentDay) == JsRem(dayOfWeek - currentDay + 7, 7)

\* the scheduler with the weekly branch moving to the nearest anchor day
\* instead of the next one
NextDueDate_NearestAnchor(a, lastDueDate, now) ==
  LET baseDate == IF lastDueDate # 0 THEN lastDueDate ELSE now
      next     == baseDate + 7
      forward  == DaysToAdd(a.dayOfWeek, GetDay(next))
  IN  IF a.interval = "weekly" /\ a.dayOfWeek # Undef
      THEN [ok |-> TRUE,
            date |-> IF forward > 3 THEN next + forward - 7 ELSE next + forward]
      ELSE [ok |-> a.interval \in {"daily", "weekly", "monthly"},
            date |-> baseDate + 1]

\* the switch of createNextRecurringInstance; "ok" is FALSE when it throws
NextDueDate(a, lastDueDate, now) ==
  LET baseDate == IF lastDueDate # 0 THEN lastDueDate ELSE now
  IN  CASE a.interval = "daily" ->
             [ok |-> TRUE, date |-> baseDate + 1]
        [] a.interval = "weekly" ->
             LET next == baseDate + 7
                 daysToAdd == IF a.dayOfWeek # Undef
                              THEN DaysToAdd(a.dayOfWeek, GetDay(next))
                              ELSE 0
             IN  [ok |-> TRUE, date |-> next + daysToAdd]
        [] a.interval = "monthly" ->
             LET y  == YearOf(baseDate)
                 m  == MonthOf(baseDate)
                 d1 == MakeDate(y, m + 1, DayOfMonth(baseDate))
                 d2 == IF a.dayOfMonth # Undef
                       THEN MakeDate(YearOf(d1), MonthOf(d1), a.dayOfMonth)
                       ELSE d1
             IN  [ok |-> TRUE, date |-> d2]
        [] OTHER -> [ok |-> FALSE, date |-> 0]

\* ---------------------------------------------------------------- state
VARIABLES
  templates,           \* rows of table templates
  template_instances,  \* rows of table template_instances
  template_stats,      \* rows of table template_stats
  tasks,               \* rows of table tasks
  held,                \* Task objects the caller holds (returned by the API)
  nextTpl,             \* templates created so far (fresh permanentId source)
  nextInst,            \* instances created so far (fresh instance id source)
  nextTask,            \* tasks TaskFactory created so far (fresh task id source)
  faultsLeft,          \* storage statements that may still throw
  everCompleted,       \* instance ids for which completeTask has succeeded
  created,             \* <<templateId, instanceId>> of every instance row written
  steps,               \* calls made so far
  sched,               \* a call of the recurrence scheduler on its own
  calls,               \* completeTask calls in progress, one record per call
  last                 \* the operation performed by the latest step

vars == <<templates, template_instances, template_stats, tasks, held,
          nextTpl, nextInst, nextTask, faultsLeft, everCompleted, created,
          steps, sched, calls, last>>

MaxFaults == 1

\* the four tables as one value
Store == [tpl |-> templates, inst |-> template_instances,
          stats |-> template_stats, tasks |-> tasks]

TplIds  == (TplBase + 1)..(TplBase + MaxTemplates)

\* ---------------------------------------------------------------- statements
\* INSERT OR REPLACE INTO tasks (id, title, completed, created_at, due_date)
SaveTask(S, t) ==
  [S EXCEPT !.tasks = {r \in @ : r.id # t.id} \cup
      {[id |-> t.id, title |-> t.title, completed |-> t.completed,
        due_date |-> t.dueDate]}]

\* DELETE FROM tasks WHERE id = ?
DeleteTaskRow(S, id) == [S EXCEPT !.tasks = {r \in @ : r.id # id}]

\* INSERT OR REPLACE INTO templates (...)
InsertTemplateRow(S, p) ==
  [S EXCEPT !.tpl = {r \in @ : r.permanentId # p.permanentId} \cup
      {[permanentId |-> p.permanentId, templateTitle |-> p.templateTitle,
        isTemplate |-> p.isTemplate, instanceCount |-> p.instanceCount,
        autoRepeat |-> SerializeRepeat(p.autoRepeat),
        location |-> p.location]}]

ZeroDays == [d \in 0..6 |-> 0]

ZeroStats(pid) ==
  [templateId |-> pid, completionCount |-> 0, rateNum |-> 0, rateDen |-> 0,
   currentStreak |-> 0, maxStreak |-> 0, days |-> ZeroDays]

\* the stats initialisation written as INSERT OR REPLACE: it zeroes a row that
\* is already there
InitStatsRow_Replace(S, pid) ==
  [S EXCEPT !.stats = {r \in @ : r.templateId # pid} \cup {ZeroStats(pid)}]

\* INSERT OR IGNORE INTO template_stats (...) VALUES (?, 0, 0, ...)
InitStatsRow(S, pid) ==
  IF \E r \in S.stats : r.templateId = pid THEN S
  ELSE [S EXCEPT !.stats = @ \cup {ZeroStats(pid)}]

\* DELETE FROM template_instances WHERE templateId = ?
DeleteInstancesOf(S, pid) ==
  [S EXCEPT !.inst = {r \in @ : r.templateId # pid}]

\* DELETE FROM templates WHERE permanentId = ?
DeleteTemplateRow(S, pid) ==
  [S EXCEPT !.tpl = {r \in @ : r.permanentId # pid}]

\* DELETE FROM template_stats WHERE templateId = ?
DeleteStatsRow(S, pid) ==
  [S EXCEPT !.stats = {r \in @ : r.templateId # pid}]

\* INSERT OR REPLACE INTO template_instances (instanceId, templateId, createdAt):
\* the dueDate column is not in the column list and is left NULL
InsertInstanceRow(S, p) ==
  [S EXCEPT !.inst =
      {r \in @ : ~(r.instanceId = p.id /\ r.templateId = p.permanentId)} \cup
      {[instanceId |-> p.id, templateId |-> p.permanentId, dueDate |-> 0]}]

\* UPDATE templates SET instanceCount = instanceCount + 1 WHERE permanentId = ?
IncrementInstanceCount(S, pid) ==
  [S EXCEPT !.tpl = {IF r.permanentId = pid
                     THEN [r EXCEPT !.instanceCount = @ + 1] ELSE r : r \in @}]

\* DELETE FROM template_instances WHERE instanceId = ? AND templateId = ?
DeleteInstanceRow(S, id, pid) ==
  [S EXCEPT !.inst = {r \in @ : ~(r.instanceId = id /\ r.templateId = pid)}]

\* UPDATE templates SET instanceCount = instanceCount - 1
\*  WHERE permanentId = ? AND instanceCount > 0
DecrementInstanceCount(S, pid) ==
  [S EXCEPT !.tpl = {IF r.permanentId = pid /\ r.instanceCount > 0
                     THEN [r EXCEPT !.instanceCount = @ - 1] ELSE r : r \in @}]

\* updateTemplateStats that leaves the weekday counters alone
UpdateTemplateStats_NoWeekday(S, pid, completedAt) ==
  LET rows  == {r \in S.stats : r.templateId = pid}
      old   == IF rows = {} THEN ZeroStats(pid) ELSE CHOOSE r \in rows : TRUE
      cur   == old.currentStreak + 1
      new   == [old EXCEPT !.completionCount = @ + 1, !.currentStreak = cur,
                           !.maxStreak = IF cur > @ THEN cur ELSE @]
  IN  [S EXCEPT !.stats = (@ \ rows) \cup {new}]

\* updateTemplateStats: read (or zero) the row, bump the counters, recompute
\* the rate from templates.instanceCount, INSERT OR REPLACE the row
UpdateTemplateStats(S, pid, completedAt) ==
  LET rows  == {r \in S.stats : r.templateId = pid}
      old   == IF rows = {} THEN ZeroStats(pid) ELSE CHOOSE r \in rows : TRUE
      cnt   == old.completionCount + 1
      cur   == old.currentStreak + 1
      mx    == IF cur > old.maxStreak THEN cur ELSE old.maxStreak
      trows == {r \in S.tpl : r.permanentId = pid}
      total == IF trows = {} THEN 0 ELSE (CHOOSE r \in trows : TRUE).instanceCount
      new   == [templateId |-> pid, completionCount |-> cnt,
                rateNum |-> IF total > 0 THEN cnt ELSE 0,
                rateDen |-> IF total > 0 THEN total ELSE 0,
                currentStreak |-> cur, maxStreak |-> mx,
                days |-> [old.days EXCEPT ![GetDay(completedAt)] = @ + 1]]
  IN  [S EXCEPT !.stats = (@ \ rows) \cup {new}]

\* ---------------------------------------------------------------- reads
\* completionCount of the stats row of template pid in store S, 0 without one
CompletionCountIn(S, pid) ==
  LET rows == {r \in S.stats : r.templateId = pid}
  IN  IF rows = {} THEN 0 ELSE (CHOOSE r \in rows : TRUE).completionCount

\* getTemplateById: SELECT * FROM templates WHERE permanentId = ? AND isTemplate = 1
TemplateRows(S, pid) == {r \in S.tpl : r.permanentId = pid /\ r.isTemplate}

\* the PermanentTask built from a template row (completed: false is hard-coded)
TemplateOfRow(r) ==
  [id |-> r.permanentId, permanentId |-> r.permanentId, title |-> "",
   templateTitle |-> r.templateTitle, isTemplate |-> r.isTemplate,
   dueDate |-> 0, autoRepeat |-> ParseRepeat(r.autoRepeat),
   location |-> r.location,
   instanceCount |-> r.instanceCount, completed |-> FALSE]

GetTemplateById(S, pid) == TemplateOfRow(CHOOSE r \in TemplateRows(S, pid) : TRUE)

\* getTemplateStats: the stats rows of a template (empty set = null)
GetTemplateStats(S, pid) == {r \in S.stats : r.templateId = pid}

\* getInstancesByTemplateId: [] when the template is gone; completed is the
\* literal false, whatever was saved
GetInstancesByTemplateId(S, pid) ==
  IF TemplateRows(S, pid) = {} THEN {}
  ELSE {[id |-> r.instanceId, permanentId |-> r.templateId, isTemplate |-> FALSE,
         completed |-> FALSE] : r \in {x \in S.inst : x.templateId = pid}}

\* getInstanceById: null (empty set) when the row or its template is missing
GetInstanceById(S, id) ==
  {[id |-> r.instanceId, permanentId |-> r.templateId, isTemplate |-> FALSE,
    completed |-> FALSE] :
      r \in {x \in S.inst : x.instanceId = id /\ TemplateRows(S, x.templateId) # {}}}

\* getAllTasks: rows of tasks mapped to Task objects; kind and metadata are not
\* columns of the table, so they come back undefined
TaskOfRow(r) ==
  [id |-> r.id, title |-> r.title, completed |-> r.completed,
   dueDate |-> r.due_date, kind |-> "undefined", permanentId |-> 0,
   templateTitle |-> "", isTemplate |-> FALSE, autoRepeat |-> NoRepeat,
   instanceCount |-> 0, location |-> ""]

GetAllTasks(S) == {TaskOfRow(r) : r \in S.tasks}

\* getAllPermanentTemplates / createPermanentTask case 2: template as Task
TaskOfTemplate(t) ==
  [id |-> t.id, title |-> t.templateTitle, completed |-> FALSE, dueDate |-> 0,
   kind |-> "permanent", permanentId |-> t.permanentId,
   templateTitle |-> t.templateTitle, isTemplate |-> t.isTemplate,
   autoRepeat |-> t.autoRepeat, instanceCount |-> t.instanceCount,
   location |-> t.location]

GetAllPermanentTemplates(S) ==
  {TaskOfTemplate(TemplateOfRow(r)) : r \in {x \in S.tpl : x.isTemplate}}

\* ---------------------------------------------------------------- factory
\* createTemplate
CreateTemplate(pid, templateTitle, location, autoRepeat) ==
  [id |-> pid, permanentId |-> pid, title |-> "", templateTitle |-> templateTitle,
   isTemplate |-> TRUE, dueDate |-> 0, autoRepeat |-> autoRepeat,
   location |-> location, instanceCount |-> 0, completed |-> FALSE]

\* createInstance (called without a location of its own: the template's is
\* inherited)
CreateInstance(id, template, dueDate, title) ==
  [id |-> id, permanentId |-> template.permanentId, title |-> title,
   templateTitle |-> template.templateTitle, isTemplate |-> FALSE,
   dueDate |-> dueDate, autoRepeat |-> template.autoRepeat,
   location |-> template.location, instanceCount |-> 0, completed |-> FALSE]

\* createNextRecurringInstance: throws without autoRepeat or on an unknown
\* interval, else an instance due on the computed date
CreateNextRecurringInstance(id, template, lastDueDate, now) ==
  LET nd == NextDueDate(template.autoRepeat, lastDueDate, now)
  IN  IF ~template.autoRepeat.present \/ ~nd.ok
      THEN [ok |-> FALSE, instance |-> CreateInstance(id, template, 0, "")]
      ELSE [ok |-> TRUE, instance |-> CreateInstance(id, template, nd.date, "")]

\* validateTemplate / validateInstance (createdAt is always a valid timestamp)
ValidateTemplate(p) == p.permanentId # 0 /\ p.templateTitle # "" /\ p.isTemplate
ValidateInstance(p) ==
  p.id # 0 /\ p.permanentId # 0 /\ p.templateTitle # "" /\ ~p.isTemplate

\* ---------------------------------------------------------------- storage API
\* Each operation is the list of stores after 0, 1, 2, .. of its statements;
\* statement k throwing leaves the store at element k.
\* savePermanentTemplate
SavePermanentTemplate(S, p) ==
  LET S1 == InsertTemplateRow(S, p)
  IN  <<S, S1, InitStatsRow(S1, p.permanentId)>>

\* savePermanentInstance
SavePermanentInstance(S, p) ==
  LET S1 == InsertInstanceRow(S, p)
  IN  <<S, S1, IncrementInstanceCount(S1, p.permanentId)>>

\* deletePermanentTemplate that leaves the stats row behind
DeletePermanentTemplate_KeepStats(S, pid) ==
  LET S1 == DeleteInstancesOf(S, pid)
      S2 == DeleteTemplateRow(S1, pid)
  IN  <<S, S1, S2, S2>>

\* deletePermanentTemplate
DeletePermanentTemplate(S, pid) ==
  LET S1 == DeleteInstancesOf(S, pid)
      S2 == DeleteTemplateRow(S1, pid)
  IN  <<S, S1, S2, DeleteStatsRow(S2, pid)>>

\* deletePermanentInstance
DeletePermanentInstance(S, id, pid) ==
  LET S1 == DeleteInstanceRow(S, id, pid)
  IN  <<S, S1, DecrementInstanceCount(S1, pid)>>

Last(seq) == seq[Len(seq)]

\* result of running a statement list with statement f throwing (0: none)
Outcome(trace, f) ==
  IF f = 0 THEN [store |-> Last(trace), ok |-> TRUE]
  ELSE [store |-> trace[f], ok |-> FALSE]

\* ---------------------------------------------------------------- pipeline
\* Results of a router operation: the store it leaves, whether it returned
\* (ok) or threw, the Task it returned, whether fault point f exists, the id
\* and due date of a spawned instance, and whether
\* createNextRecurringInstance was called (scheduled).
Rejected(S, task) ==
  [store |-> S, ok |-> FALSE, ret |-> task, valid |-> TRUE, rejected |-> TRUE,
   spawned |-> 0, due |-> 0, scheduled |-> FALSE]

Result(S, ok, ret, valid) ==
  [store |-> S, ok |-> ok, ret |-> ret, valid |-> valid, rejected |-> FALSE,
   spawned |-> 0, due |-> 0, scheduled |-> FALSE]

FromTrace(trace, f, ret) ==
  IF f \in 0..(Len(trace) - 1)
  THEN Result(Outcome(trace, f).store, Outcome(trace, f).ok, ret, TRUE)
  ELSE Result(trace[1], FALSE, ret, FALSE)

\* the PermanentTask the handlers build from a Task
PermanentOfTask(task) ==
  [id |-> task.id, permanentId |-> task.permanentId,
   title |-> IF task.title # task.templateTitle THEN task.title ELSE "",
   templateTitle |-> IF task.templateTitle # "" THEN task.templateTitle
                     ELSE task.title,
   isTemplate |-> task.isTemplate, dueDate |-> task.dueDate,
   autoRepeat |-> task.autoRepeat, location |-> task.location,
   instanceCount |-> task.instanceCount, completed |-> task.completed]

\* createPermanentTask, case 2: new template
CreatePermanentTemplateTask(S, pid, title, location, autoRepeat, f) ==
  IF title = ""
  THEN Rejected(S, TaskOfTemplate(CreateTemplate(pid, title, location, autoRepeat)))
  ELSE LET template == CreateTemplate(pid, title, location, autoRepeat)
       IN  FromTrace(SavePermanentTemplate(S, template), f, TaskOfTemplate(template))

\* the Task createPermanentTask returns for an instance
TaskOfInstance(i) ==
  [id |-> i.id, title |-> IF i.title # "" THEN i.title ELSE i.templateTitle,
   completed |-> i.completed, dueDate |-> i.dueDate, kind |-> "permanent",
   permanentId |-> i.permanentId, templateTitle |-> i.templateTitle,
   isTemplate |-> i.isTemplate, autoRepeat |-> i.autoRepeat, instanceCount |-> 0,
   location |-> i.location]

\* createPermanentTask, case 1: instance of an existing template
CreatePermanentInstanceTask(S, id, templateId, title, dueDate, f) ==
  IF TemplateRows(S, templateId) = {}
  THEN Rejected(S, TaskOfRow([id |-> id, title |-> title, completed |-> FALSE,
                              due_date |-> dueDate]))
  ELSE LET instance == CreateInstance(id, GetTemplateById(S, templateId),
                                      dueDate, title)
           task     == TaskOfInstance(instance)
           save     == SavePermanentInstance(S, instance)
       IN  FromTrace(save \o <<SaveTask(Last(save), task)>>, f, task)

\* handlePermanentCompletion without the "templates cannot be completed" rule
HandlePermanentCompletion_NoTemplateRule(S, task, now, newId, f) ==
  IF task.completed THEN Rejected(S, task)
  ELSE
    LET p    == [PermanentOfTask(task) EXCEPT !.isTemplate = FALSE,
                                              !.completed = TRUE, !.title = ""]
        save == SavePermanentInstance(S, p)
        S3   == UpdateTemplateStats(Last(save), p.permanentId, now)
    IN  Result(S3, TRUE, [task EXCEPT !.completed = TRUE], f = 0)

\* handlePermanentCompletion without the try/catch around the auto-repeat step
HandlePermanentCompletion_NoCatch(S, task, now, newId, f) ==
  IF task.isTemplate \/ task.completed THEN Rejected(S, task)
  ELSE
    LET p     == [PermanentOfTask(task) EXCEPT !.isTemplate = FALSE,
                                               !.completed = TRUE, !.title = ""]
        save  == SavePermanentInstance(S, p)
        S3    == UpdateTemplateStats(Last(save), p.permanentId, now)
        main  == save \o <<S3>>
        ret   == [task EXCEPT !.completed = TRUE]
        found == p.autoRepeat.present /\ TemplateRows(S3, p.permanentId) # {}
        nxt   == CreateNextRecurringInstance(
                   newId, GetTemplateById(S3, p.permanentId), p.dueDate, now)
        spawn == SavePermanentInstance(S3, nxt.instance)
    IN  IF f \in 1..3 THEN Result(main[f], FALSE, ret, TRUE)
        ELSE IF ~found THEN Result(S3, TRUE, ret, f = 0)
        ELSE IF ~nxt.ok THEN Result(S3, FALSE, ret, f = 0)
        ELSE IF f = 0
             THEN [Result(Last(spawn), TRUE, ret, TRUE)
                     EXCEPT !.spawned = newId, !.due = nxt.instance.dueDate]
             ELSE Result(spawn[IF f \in 4..5 THEN f - 3 ELSE 1], FALSE, ret,
                         f \in 4..5)

\* handlePermanentCompletion
HandlePermanentCompletion(S, task, now, newId, f) ==
  IF task.isTemplate \/ task.completed THEN Rejected(S, task)
  ELSE
    LET p     == [PermanentOfTask(task) EXCEPT !.isTemplate = FALSE,
                                               !.completed = TRUE, !.title = ""]
        save  == SavePermanentInstance(S, p)
        S3    == UpdateTemplateStats(Last(save), p.permanentId, now)
        main  == save \o <<S3>>
        ret   == [task EXCEPT !.completed = TRUE]
        found == p.autoRepeat.present /\ TemplateRows(S3, p.permanentId) # {}
        nxt   == CreateNextRecurringInstance(
                   newId, GetTemplateById(S3, p.permanentId), p.dueDate, now)
        spawn == SavePermanentInstance(S3, nxt.instance)
    IN  IF f \in 1..3 THEN Result(main[f], FALSE, ret, TRUE)
        ELSE IF ~found THEN Result(S3, TRUE, ret, f = 0)
        ELSE IF ~nxt.ok
             THEN \* the scheduler's throw is caught and logged
                  [Result(S3, TRUE, ret, f = 0) EXCEPT !.scheduled = TRUE]
        ELSE IF f = 0
             THEN [Result(Last(spawn), TRUE, ret, TRUE)
                     EXCEPT !.spawned = newId, !.due = nxt.instance.dueDate,
                            !.scheduled = TRUE]
             ELSE \* the spawn's statement f - 3 throws inside the try block
                  [Result(spawn[IF f \in 4..5 THEN f - 3 ELSE 1], TRUE, ret,
                          f \in 4..5) EXCEPT !.scheduled = TRUE]

\* deletePermanentTask
DeletePermanentTask(S, task, f) ==
  IF task.isTemplate
  THEN FromTrace(DeletePermanentTemplate(S, task.permanentId), f, task)
  ELSE FromTrace(DeletePermanentInstance(S, task.id, task.permanentId), f, task)

\* task.metadata of a Task
MetadataOf(task) ==
  [permanentId |-> task.permanentId, templateTitle |-> task.templateTitle,
   isTemplate |-> task.isTemplate, autoRepeat |-> task.autoRepeat,
   instanceCount |-> task.instanceCount]

\* updates of reassignTask (Partial<Task>): "", 0 and hasMetadata = FALSE
\* stand for keys the caller left out
NoUpdate ==
  [title |-> "", dueDate |-> 0, location |-> "", id |-> 0,
   hasMetadata |-> FALSE,
   metadata |-> [permanentId |-> 0, templateTitle |-> "", isTemplate |-> FALSE,
                 autoRepeat |-> NoRepeat, instanceCount |-> 0]]

\* { ...task, ...updates }: every key of updates replaces the task's, and a
\* metadata key replaces the metadata object as a whole
Merge(task, updates) ==
  LET t == [task EXCEPT
              !.title = IF updates.title # "" THEN updates.title ELSE @,
              !.dueDate = IF updates.dueDate # 0 THEN updates.dueDate ELSE @,
              !.location = IF updates.location # "" THEN updates.location ELSE @,
              !.id = IF updates.id # 0 THEN updates.id ELSE @]
  IN  IF updates.hasMetadata
      THEN [t EXCEPT !.permanentId = updates.metadata.permanentId,
                     !.templateTitle = updates.metadata.templateTitle,
                     !.isTemplate = updates.metadata.isTemplate,
                     !.autoRepeat = updates.metadata.autoRepeat,
                     !.instanceCount = updates.metadata.instanceCount]
      ELSE t

\* reassignPermanentTask
ReassignPermanentTask(S, task, updates, f) ==
  LET p == PermanentOfTask(task)
      u == [p EXCEPT !.title = IF updates.title # "" THEN updates.title ELSE @,
                     !.dueDate = IF updates.dueDate # 0 THEN updates.dueDate ELSE @,
                     !.location = IF updates.location # "" THEN updates.location
                                  ELSE @]
  IN  IF u.isTemplate
      THEN IF ~ValidateTemplate(u) THEN Rejected(S, task)
           ELSE FromTrace(SavePermanentTemplate(S, u), f, Merge(task, updates))
      ELSE IF ~ValidateInstance(u) THEN Rejected(S, task)
           ELSE FromTrace(SavePermanentInstance(S, u), f, Merge(task, updates))

\* pushPermanentTaskForward without the "templates cannot be pushed" rule
PushPermanentTaskForward_NoTemplateRule(S, task, days, now, f) ==
  LET currentDueDate == IF task.dueDate # 0 THEN task.dueDate ELSE now
      newDueDate     == currentDueDate + days
      p == [PermanentOfTask(task) EXCEPT !.isTemplate = FALSE,
                                         !.dueDate = newDueDate]
  IN  FromTrace(SavePermanentInstance(S, p), f,
                [task EXCEPT !.dueDate = newDueDate])

\* pushPermanentTaskForward
PushPermanentTaskForward(S, task, days, now, f) ==
  IF task.isTemplate THEN Rejected(S, task)
  ELSE LET currentDueDate == IF task.dueDate # 0 THEN task.dueDate ELSE now
           newDueDate     == currentDueDate + days
           p == [PermanentOfTask(task) EXCEPT !.isTemplate = FALSE,
                                              !.dueDate = newDueDate]
       IN  FromTrace(SavePermanentInstance(S, p), f,
                     [task EXCEPT !.dueDate = newDueDate])

\* ---------------------------------------------------------------- router
\* TaskFactory.create(title): a Task with no kind and no metadata
TaskFactoryCreate(id, title) ==
  TaskOfRow([id |-> id, title |-> title, completed |-> FALSE, due_date |-> 0])

\* createTask for a kind other than permanent: the switch has no case for
\* preset, so every such kind takes the default branch; additionalData may
\* carry a kind (dataKind), "undefined" when it does not
CreateTaskOp(S, id, title, kind, dataKind, f) ==
  LET taskWithData == [TaskFactoryCreate(id, title) EXCEPT !.kind = dataKind]
  IN  FromTrace(<<S, SaveTask(S, taskWithData)>>, f, taskWithData)

\* completeTask
CompleteTaskOp(S, task, now, newId, f) ==
  IF task.kind = "permanent" THEN HandlePermanentCompletion(S, task, now, newId, f)
  ELSE IF task.kind = "preset" THEN Rejected(S, task)
  ELSE LET completed == [task EXCEPT !.completed = TRUE]
       IN  FromTrace(<<S, SaveTask(S, completed)>>, f, completed)

\* uncompleteTask: permanent tasks are treated like one-off tasks
UncompleteTaskOp(S, task, f) ==
  IF task.kind = "preset" THEN Rejected(S, task)
  ELSE LET uncompleted == [task EXCEPT !.completed = FALSE]
       IN  FromTrace(<<S, SaveTask(S, uncompleted)>>, f, uncompleted)

\* deleteTask
DeleteTaskOp(S, task, f) ==
  IF task.kind = "permanent" THEN DeletePermanentTask(S, task, f)
  ELSE IF task.kind = "preset" THEN Rejected(S, task)
  ELSE FromTrace(<<S, DeleteTaskRow(S, task.id)>>, f, task)

\* reassignTask
ReassignTaskOp(S, task, updates, f) ==
  IF task.kind = "permanent" THEN ReassignPermanentTask(S, task, updates, f)
  ELSE IF task.kind = "preset" THEN Rejected(S, task)
  ELSE FromTrace(<<S, SaveTask(S, Merge(task, updates))>>, f, Merge(task, updates))

\* pushTaskForward
PushTaskForwardOp(S, task, days, now, f) ==
  IF task.kind = "permanent" THEN PushPermanentTaskForward(S, task, days, now, f)
  ELSE IF task.kind = "preset" THEN Rejected(S, task)
  ELSE LET updated == [task EXCEPT !.dueDate =
                         (IF @ # 0 THEN @ ELSE now) + days]
       IN  FromTrace(<<S, SaveTask(S, updated)>>, f, updated)

\* ---------------------------------------------------------------- actions
NoTask == TaskOfRow([id |-> 0, title |-> "", completed |-> FALSE, due_date |-> 0])

\* what the latest step did: the operation, the identity and flags of the Task
\* it was called with, how it ended, the Task fields it returned and the
\* updates it was given; "at" is the completedAt of a direct
\* updateTemplateStats call
LogU(op, task, r, f, u) ==
  [op |-> op, id |-> task.id, permanentId |-> task.permanentId,
   kind |-> task.kind, isTemplate |-> task.isTemplate,
   wasCompleted |-> task.completed, ok |-> r.ok, rejected |-> r.rejected,
   fault |-> f, spawned |-> r.spawned, due |-> r.due,
   scheduled |-> r.scheduled,
   retId |-> IF r.ok THEN r.ret.id ELSE 0,
   retCompleted |-> r.ok /\ r.ret.completed,
   retDue |-> IF r.ok THEN r.ret.dueDate ELSE 0,
   retPermanentId |-> IF r.ok THEN r.ret.permanentId ELSE 0,
   retIsTemplate |-> r.ok /\ r.ret.isTemplate,
   updates |-> u, at |-> 0]

Log(op, task, r, f) == LogU(op, task, r, f, NoUpdate)

SchedIdle == [repeat |-> NoRepeat, ref |-> 0, now |-> 0, done |-> FALSE,
              ok |-> FALSE, out |-> 0]

\* a completeTask call that has not started: its position, the Task it was
\* given, the completionCount it started from, its Date.now(), whether it has
\* updated the stats, the template it looked up and the instance it spawned
IdleCall ==
  [pc |-> "idle", task |-> NoTask, base |-> 0, now |-> 0, recorded |-> FALSE,
   template |-> CreateTemplate(0, "", "", NoRepeat), spawned |-> 0]

\* the empty database after schema creation, nothing held by the caller
EmptyStore ==
  /\ calls = [c \in 1..MaxCalls |-> IdleCall]
  /\ templates = {}
  /\ template_instances = {}
  /\ template_stats = {}
  /\ tasks = {}
  /\ held = {}
  /\ nextTpl = 0
  /\ nextInst = 0
  /\ nextTask = 0
  /\ everCompleted = {}
  /\ created = {}
  /\ steps = 0

\* every storage statement succeeds
Init ==
  /\ EmptyStore
  /\ faultsLeft = 0
  /\ sched = SchedIdle
  /\ last = Log("init", NoTask, Result(Store, TRUE, NoTask, TRUE), 0)

\* the counters and dates the model follows stay within the bounds
WithinBounds(r) ==
  /\ \A t \in r.store.tpl : t.instanceCount <= MaxCount
  /\ \A x \in r.store.stats : x.completionCount <= MaxCompletions
  /\ r.ret.dueDate <= MaxDay

\* a step of the router: result r of operation op called with task and fault f
StepU(op, task, r, f, u) ==
  /\ steps < MaxSteps
  /\ f # 0 => faultsLeft > 0
  /\ r.valid
  /\ WithinBounds(r)
  /\ steps' = steps + 1
  /\ UNCHANGED <<sched, calls>>
  /\ faultsLeft' = IF f # 0 THEN faultsLeft - 1 ELSE faultsLeft
  /\ templates' = r.store.tpl
  /\ template_instances' = r.store.inst
  /\ template_stats' = r.store.stats
  /\ tasks' = r.store.tasks
  /\ created' = created \cup {<<i.templateId, i.instanceId>> : i \in r.store.inst}
  /\ last' = LogU(op, task, r, f, u)

Step(op, task, r, f) == StepU(op, task, r, f, NoUpdate)

\* The caller keeps one Task object per id, as the list of useTasks does
\* (setTasks(prev => prev.map(t => t.id === taskId ? updated : t))): the Task an
\* operation returns takes the place of the one held for that id, unless the
\* caller goes on using the object it had (keepOld).
Replace(h, t) == {x \in h : x.id # t.id} \cup {t}

Keep(task, r, keepOld) ==
  held' = IF ~r.ok \/ keepOld THEN held ELSE Replace(held, r.ret)

\* fault points: statement f of the operation throws, 0 for none
Faults(n) == 0..n

\* createTask(title, 'permanent', {autoRepeat})
CreateTemplateTask ==
  \E title \in Titles \cup {""}, loc \in CreateLocations, a \in RepeatConfigs,
     f \in Faults(2) :
    /\ nextTpl < MaxTemplates
    /\ LET pid == TplBase + nextTpl + 1
           r   == CreatePermanentTemplateTask(Store, pid, title, loc, a, f)
       IN  /\ Step("createTask", NoTask, r, f)
           /\ Keep(NoTask, r, FALSE)
           /\ nextTpl' = IF r.rejected THEN nextTpl ELSE nextTpl + 1
    /\ UNCHANGED <<nextInst, nextTask, everCompleted>>

\* createTask(title, 'permanent', {templateId, dueDate})
CreateInstanceTask ==
  \E templateId \in TplIds, title \in Titles, d \in DueDates, f \in Faults(3) :
    /\ nextInst < MaxCreated
    /\ LET r == CreatePermanentInstanceTask(Store, nextInst + 1, templateId,
                                            title, d, f)
       IN  /\ Step("createTask", NoTask, r, f)
           /\ Keep(NoTask, r, FALSE)
           /\ nextInst' = IF r.rejected THEN nextInst ELSE nextInst + 1
    /\ UNCHANGED <<nextTpl, nextTask, everCompleted>>

\* createTask(title, kind, additionalData) for kind one_off or preset
CreatePlainTask ==
  \E title \in Titles, kind \in PlainKinds, dataKind \in {"undefined", "preset"},
     f \in Faults(1) :
    /\ nextTask < MaxTasks
    /\ LET r == CreateTaskOp(Store, TaskBase + nextTask + 1, title, kind,
                             dataKind, f)
       IN  /\ Step("createTask", [NoTask EXCEPT !.kind = kind], r, f)
           /\ Keep(NoTask, r, FALSE)
           /\ nextTask' = nextTask + 1
    /\ UNCHANGED <<nextTpl, nextInst, everCompleted>>

\* completeTask(task)
CompleteTask ==
  \E task \in held, now \in NowDays, f \in Faults(5), keepOld \in BOOLEAN :
    LET r == CompleteTaskOp(Store, task, now, nextInst + 1, f)
    IN  /\ r.spawned # 0 => nextInst < MaxInstances
        /\ Step("completeTask", task, r, f)
        /\ Keep(task, r, keepOld)
        /\ nextInst' = IF r.spawned # 0 \/ (r.valid /\ f \in 4..5)
                       THEN nextInst + 1 ELSE nextInst
        /\ nextInst' <= MaxInstances
        /\ everCompleted' = IF r.ok /\ task.kind = "permanent"
                            THEN everCompleted \cup {task.id} ELSE everCompleted
        /\ UNCHANGED <<nextTpl, nextTask>>

\* uncompleteTask(task)
UncompleteTask ==
  \E task \in held, f \in Faults(1), keepOld \in {FALSE} :
    LET r == UncompleteTaskOp(Store, task, f)
    IN  /\ Step("uncompleteTask", task, r, f)
        /\ Keep(task, r, keepOld)
        /\ everCompleted' = IF r.ok THEN everCompleted \ {task.id}
                            ELSE everCompleted
        /\ UNCHANGED <<nextTpl, nextInst, nextTask>>

\* deleteTask(task)
DeleteTask ==
  \E task \in held, f \in Faults(3), keepOld \in {TRUE} :
    LET r == DeleteTaskOp(Store, task, f)
    IN  /\ Step("deleteTask", task, r, f)
        /\ held' = IF keepOld \/ ~r.ok THEN held ELSE held \ {task}
        /\ UNCHANGED <<nextTpl, nextInst, nextTask, everCompleted>>

Updates == {[NoUpdate EXCEPT !.title = t] : t \in NewTitles} \cup
           {[NoUpdate EXCEPT !.dueDate = d] : d \in DueDates \ {0}}

\* reassignTask(task, updates)
ReassignTask ==
  \E task \in held, u \in Updates, f \in Faults(2), keepOld \in {FALSE} :
    LET r == ReassignTaskOp(Store, task, u, f)
    IN  /\ StepU("reassignTask", task, r, f, u)
        /\ Keep(task, r, keepOld)
        /\ UNCHANGED <<nextTpl, nextInst, nextTask, everCompleted>>

\* every kind of updates object for task: the fields of Updates, a location,
\* a metadata object with another recurrence, an id, and a metadata object
\* with another permanentId and isTemplate flag
UpdatesFor(task) ==
  Updates \cup
  {[NoUpdate EXCEPT !.location = l] : l \in NewLocations} \cup
  {[NoUpdate EXCEPT !.hasMetadata = TRUE,
                    !.metadata = [MetadataOf(task) EXCEPT !.autoRepeat = a]] :
      a \in NewRepeats} \cup
  {[NoUpdate EXCEPT !.id = TaskBase + 1],
   [NoUpdate EXCEPT !.hasMetadata = TRUE,
                    !.metadata = [MetadataOf(task) EXCEPT
                                    !.permanentId = TplBase + MaxTemplates + 1,
                                    !.isTemplate = ~@]]}

\* reassignTask(task, updates) with any updates object
ReassignTaskAny ==
  \E task \in held :
    \E u \in UpdatesFor(task), f \in Faults(2) :
      LET r == ReassignTaskOp(Store, task, u, f)
      IN  /\ StepU("reassignTask", task, r, f, u)
          /\ Keep(task, r, FALSE)
          /\ UNCHANGED <<nextTpl, nextInst, nextTask, everCompleted>>

\* pushTaskForward(task, days)
PushTaskForward ==
  \E task \in held, days \in PushDays, now \in NowDays, f \in Faults(2),
     keepOld \in {FALSE} :
    LET r == PushTaskForwardOp(Store, task, days, now, f)
    IN  /\ Step("pushTaskForward", task, r, f)
        /\ Keep(task, r, keepOld)
        /\ UNCHANGED <<nextTpl, nextInst, nextTask, everCompleted>>

\* useTasks.loadTasks: the caller reads the tasks table and keeps a row's Task
LoadTasks ==
  \E t \in GetAllTasks(Store) :
    /\ t \notin held
    /\ held' = Replace(held, t)
    /\ steps < MaxSteps
    /\ steps' = steps + 1
    /\ UNCHANGED <<sched, calls>>
    /\ last' = Log("getAllTasks", NoTask, Result(Store, TRUE, t, TRUE), 0)
    /\ UNCHANGED <<templates, template_instances, template_stats, tasks,
                   nextTpl, nextInst, nextTask, faultsLeft, everCompleted,
                   created>>

\* getAllPermanentTemplates: the caller keeps a template's Task
LoadTemplates ==
  \E t \in GetAllPermanentTemplates(Store) :
    /\ t \notin held
    /\ held' = Replace(held, t)
    /\ steps < MaxSteps
    /\ steps' = steps + 1
    /\ UNCHANGED <<sched, calls>>
    /\ last' = Log("getAllTemplates", NoTask, Result(Store, TRUE, t, TRUE), 0)
    /\ UNCHANGED <<templates, template_instances, template_stats, tasks,
                   nextTpl, nextInst, nextTask, faultsLeft, everCompleted,
                   created>>

Next ==
  \/ CreateTemplateTask
  \/ CreateInstanceTask
  \/ CompleteTask
  \/ UncompleteTask
  \/ DeleteTask
  \/ ReassignTask
  \/ PushTaskForward
  \/ LoadTasks
  \/ LoadTemplates

Spec == Init /\ [][Next]_vars

\* the same program when up to MaxFaults storage statements throw
FaultInit ==
  /\ EmptyStore
  /\ faultsLeft = MaxFaults
  /\ sched = SchedIdle
  /\ last = Log("init", NoTask, Result(Store, TRUE, NoTask, TRUE), 0)

FaultSpec == FaultInit /\ [][Next]_vars

\* the router used for tasks that are not permanent
PlainNext ==
  \/ CreatePlainTask
  \/ CompleteTask
  \/ UncompleteTask
  \/ DeleteTask
  \/ ReassignTask
  \/ PushTaskForward
  \/ LoadTasks

PlainSpec == Init /\ [][PlainNext]_vars

\* creation and reassignment, the latter with every kind of updates object
ReassignNext ==
  \/ CreateTemplateTask
  \/ CreateInstanceTask
  \/ ReassignTaskAny
  \/ LoadTemplates

ReassignSpec == Init /\ [][ReassignNext]_vars

\* ---------------------------------------------------------------- stats alone
\* Monday 2024-01-01 .. Sunday 2024-01-07
StatsDates == 19723..19729

\* updateTemplateStats(templateId, completedAt) called on the storage layer
RecordCompletion ==
  \E pid \in TplIds, completedAt \in StatsDates :
    /\ CompletionCountIn(Store, pid) < MaxRecordings
    /\ steps < MaxSteps
    /\ steps' = steps + 1
    /\ LET r == Result(UpdateTemplateStats(Store, pid, completedAt), TRUE,
                       NoTask, TRUE)
       IN  /\ template_stats' = r.store.stats
           /\ last' = [Log("updateTemplateStats",
                           [NoTask EXCEPT !.permanentId = pid], r, 0)
                         EXCEPT !.at = completedAt]
    /\ UNCHANGED <<templates, template_instances, tasks, held, nextTpl,
                   nextInst, nextTask, faultsLeft, everCompleted, created,
                   sched, calls>>

\* templates saved and deleted, completions recorded
StatsNext ==
  \/ CreateTemplateTask
  \/ RecordCompletion
  \/ DeleteTask

StatsSpec == Init /\ [][StatsNext]_vars

\* ---------------------------------------------------------------- storage alone
\* getAllTemplates
GetAllTemplates(S) == {TemplateOfRow(r) : r \in {x \in S.tpl : x.isTemplate}}

\* the template a caller saves after reading it: unchanged, or with another
\* title
Edited(t, u) ==
  [t EXCEPT !.templateTitle = IF u.title # "" THEN u.title ELSE @]

\* savePermanentTemplate(template) for a template read with getAllTemplates
SaveTemplate ==
  \E t \in GetAllTemplates(Store),
     u \in {NoUpdate} \cup {[NoUpdate EXCEPT !.title = x] : x \in NewTitles} :
    LET r == FromTrace(SavePermanentTemplate(Store, Edited(t, u)), 0,
                       TaskOfTemplate(Edited(t, u)))
    IN  /\ StepU("savePermanentTemplate", TaskOfTemplate(t), r, 0, u)
        /\ UNCHANGED <<held, nextTpl, nextInst, nextTask, everCompleted>>

\* every row of template_instances read back as an instance
GetAllInstances(S) ==
  UNION {GetInstancesByTemplateId(S, t.permanentId) : t \in S.tpl}

\* savePermanentInstance(instance) for an instance read with
\* getInstancesByTemplateId
SaveInstance ==
  \E i \in GetAllInstances(Store) :
    LET task == [NoTask EXCEPT !.id = i.id, !.permanentId = i.permanentId,
                               !.kind = "permanent"]
        r    == FromTrace(SavePermanentInstance(Store, i), 0, task)
    IN  /\ Step("savePermanentInstance", task, r, 0)
        /\ UNCHANGED <<held, nextTpl, nextInst, nextTask, everCompleted>>

\* the storage layer called directly, next to the router's creations
StorageNext ==
  \/ CreateTemplateTask
  \/ CreateInstanceTask
  \/ RecordCompletion
  \/ SaveTemplate
  \/ SaveInstance

StorageSpec == Init /\ [][StorageNext]_vars

\* ---------------------------------------------------------------- overlapping calls
\* handlePermanentCompletion runs in segments separated by its awaits: each
\* storage function executes its statements synchronously (runSync) when it is
\* called and the caller resumes later, so another call's segment may run in
\* between.  One action per segment.
Others == <<tasks, nextTpl, nextTask, faultsLeft, steps, sched>>

\* useTasks.toggleTask -> completeTask -> handlePermanentCompletion up to its
\* first await: the guards and savePermanentInstance(permanentTask)
CallStart(c) ==
  \E task \in held, now \in NowDays :
    /\ calls[c].pc = "idle"
    /\ task.kind = "permanent"
    /\ ~task.completed
    /\ IF task.isTemplate
       THEN /\ calls' = [calls EXCEPT ![c] = [@ EXCEPT !.pc = "threw",
                                                       !.task = task]]
            /\ UNCHANGED <<templates, template_instances, created>>
       ELSE LET p  == [PermanentOfTask(task) EXCEPT !.isTemplate = FALSE,
                                                   !.completed = TRUE,
                                                   !.title = ""]
                S2 == Last(SavePermanentInstance(Store, p))
            IN  /\ calls' = [calls EXCEPT ![c] =
                      [@ EXCEPT !.pc = "stats", !.task = task, !.now = now,
                                !.base = CompletionCountIn(Store, task.permanentId)]]
                /\ templates' = S2.tpl
                /\ template_instances' = S2.inst
                /\ created' = created \cup
                      {<<i.templateId, i.instanceId>> : i \in S2.inst}
    /\ UNCHANGED <<template_stats, held, nextInst, everCompleted, last>>
    /\ UNCHANGED Others

\* await updateTemplateStats(permanentId, completedAt)
CallStats(c) ==
  /\ calls[c].pc = "stats"
  /\ template_stats' = UpdateTemplateStats(Store, calls[c].task.permanentId,
                                          calls[c].now).stats
  /\ calls' = [calls EXCEPT ![c] =
        [@ EXCEPT !.recorded = TRUE,
                  !.pc = IF calls[c].task.autoRepeat.present
                         THEN "lookup" ELSE "return"]]
  /\ UNCHANGED <<templates, template_instances, held, nextInst, everCompleted,
                 created, last>>
  /\ UNCHANGED Others

\* const template = await getTemplateById(permanentId)
CallLookup(c) ==
  /\ calls[c].pc = "lookup"
  /\ LET pid   == calls[c].task.permanentId
         found == TemplateRows(Store, pid) # {}
     IN  calls' = [calls EXCEPT ![c] =
           [@ EXCEPT !.pc = IF found THEN "spawn" ELSE "return",
                     !.template = IF found THEN GetTemplateById(Store, pid)
                                  ELSE @]]
  /\ UNCHANGED <<templates, template_instances, template_stats, held, nextInst,
                 everCompleted, created, last>>
  /\ UNCHANGED Others

\* createNextRecurringInstance(template, dueDate) and
\* savePermanentInstance(nextInstance); a throw is caught and logged
CallSpawn(c) ==
  \E now \in NowDays :
    /\ calls[c].pc = "spawn"
    /\ LET newId == nextInst + 1
           nxt   == CreateNextRecurringInstance(newId, calls[c].template,
                                                calls[c].task.dueDate, now)
           S2    == Last(SavePermanentInstance(Store, nxt.instance))
       IN  IF nxt.ok
           THEN /\ templates' = S2.tpl
                /\ template_instances' = S2.inst
                /\ created' = created \cup
                      {<<i.templateId, i.instanceId>> : i \in S2.inst}
                /\ nextInst' = newId
                /\ calls' = [calls EXCEPT ![c] = [@ EXCEPT !.pc = "return",
                                                           !.spawned = newId]]
           ELSE /\ calls' = [calls EXCEPT ![c] = [@ EXCEPT !.pc = "return"]]
                /\ UNCHANGED <<templates, template_instances, created, nextInst>>
    /\ UNCHANGED <<template_stats, held, everCompleted, last>>
    /\ UNCHANGED Others

\* return { ...task, completed: true } and toggleTask's setTasks
CallReturn(c) ==
  /\ calls[c].pc = "return"
  /\ LET task == calls[c].task
         ret  == [task EXCEPT !.completed = TRUE]
         r    == [Result(Store, TRUE, ret, TRUE)
                    EXCEPT !.spawned = calls[c].spawned,
                           !.scheduled = calls[c].template.permanentId # 0]
     IN  /\ held' = Replace(held, ret)
         /\ everCompleted' = everCompleted \cup {task.id}
         /\ last' = Log("completeTask", task, r, 0)
  /\ calls' = [calls EXCEPT ![c] = [@ EXCEPT !.pc = "returned"]]
  /\ UNCHANGED <<templates, template_instances, template_stats, nextInst,
                 created>>
  /\ UNCHANGED Others

OverlapNext ==
  \/ CreateTemplateTask
  \/ CreateInstanceTask
  \/ \E c \in 1..MaxCalls : CallStart(c)
  \/ \E c \in 1..MaxCalls : CallStats(c)
  \/ \E c \in 1..MaxCalls : CallLookup(c)
  \/ \E c \in 1..MaxCalls : CallSpawn(c)
  \/ \E c \in 1..MaxCalls : CallReturn(c)

OverlapSpec == Init /\ [][OverlapNext]_vars

\* ---------------------------------------------------------------- scheduler alone
\* createNextRecurringInstance applied to one recurrence and reference date
SchedDates == 19723..19758

SchedConfigs ==
  {Repeat("weekly", a, Undef) : a \in 0..6} \cup
  {Repeat("weekly", Undef, Undef), Repeat("daily", Undef, Undef),
   Repeat("undefined", Undef, Undef)} \cup
  {Repeat("monthly", Undef, d) : d \in {Undef, 15, 31}}

SchedInit ==
  /\ EmptyStore
  /\ faultsLeft = 0
  /\ last = Log("init", NoTask, Result(Store, TRUE, NoTask, TRUE), 0)
  /\ sched \in {[repeat |-> a, ref |-> r, now |-> n, done |-> FALSE,
                  ok |-> FALSE, out |-> 0] :
                   a \in SchedConfigs, r \in SchedDates, n \in NowDays}

SchedCompute ==
  /\ ~sched.done
  /\ LET nd == NextDueDate(sched.repeat, sched.ref, sched.now)
     IN  sched' = [sched EXCEPT !.done = TRUE, !.ok = nd.ok, !.out = nd.date]
  /\ UNCHANGED <<templates, template_instances, template_stats, tasks, held,
                 nextTpl, nextInst, nextTask, faultsLeft, everCompleted,
                 created, steps, calls, last>>

SchedNext == SchedCompute

SchedSpec == SchedInit /\ [][SchedNext]_vars

\* ---------------------------------------------------------------- properties
\* rows of template_instances that reference template pid
InstanceRowsOf(pid) == {i \in template_instances : i.templateId = pid}

\* completionCount a template's stats row holds in store S (0 without a row)
CompletionCount(S, pid) ==
  LET rows == GetTemplateStats(S, pid)
  IN  IF rows = {} THEN 0 ELSE (CHOOSE r \in rows : TRUE).completionCount

Tables == <<templates, template_instances, template_stats, tasks>>

\* C1: every template's stored instanceCount equals the number of
\* template_instances rows whose templateId is that template.
C1_InstanceCountMatchesRows ==
  \A t \in templates :
    t.instanceCount = Cardinality(InstanceRowsOf(t.permanentId))

\* C2: a completeTask for an instance whose completeTask has already
\* succeeded is rejected with an error and changes none of the four tables.
C2_SecondCompleteRejected ==
  [][(last'.op = "completeTask" /\ last'.id \in everCompleted)
       => (~last'.ok /\ last'.rejected /\ UNCHANGED Tables)]_vars

\* C3: once completeTask has succeeded on an instance (and no uncomplete
\* followed), the instance read back with getInstanceById and its row of the
\* tasks table are completed.
C3_CompletionPersisted ==
  \A id \in everCompleted :
    /\ \A i \in GetInstanceById(Store, id) : i.completed
    /\ \A r \in tasks : r.id = id => r.completed

\* C4: completeTask on a permanent task that is a template is rejected with
\* an error and writes to no table; no template is held, returned or read
\* back as completed.
C4_TemplateNeverCompleted ==
  [][/\ (last'.op = "completeTask" /\ last'.kind = "permanent"
           /\ last'.isTemplate)
          => (~last'.ok /\ last'.rejected /\ UNCHANGED Tables)
     /\ \A h \in held' : h.isTemplate => ~h.completed
     /\ \A t \in templates' :
          ~GetTemplateById([tpl |-> templates'], t.permanentId).completed
     /\ (last'.isTemplate /\ last'.kind = "permanent") => ~last'.retCompleted
    ]_vars

\* C4 witness: a completeTask on a template has just been rejected, for a
\* template that has a recurrence and already has an instance.
C4_Witness ==
  /\ last.op = "completeTask" /\ last.kind = "permanent" /\ last.isTemplate
  /\ last.rejected
  /\ \E t \in templates : t.permanentId = last.id /\ t.autoRepeat # <<>>
                          /\ InstanceRowsOf(t.permanentId) # {}

\* C5: when deleteTask on a template has returned, the template has no
\* instance rows, no stats row and no template row.
C5_TemplateDeleteCascades ==
  (last.op = "deleteTask" /\ last.kind = "permanent" /\ last.isTemplate
     /\ last.ok)
    => /\ InstanceRowsOf(last.permanentId) = {}
       /\ GetInstancesByTemplateId(Store, last.permanentId) = {}
       /\ GetTemplateStats(Store, last.permanentId) = {}
       /\ TemplateRows(Store, last.permanentId) = {}

\* C5 witness: a template that had an instance and a recorded completion has
\* just been deleted.
C5_Witness ==
  /\ last.op = "deleteTask" /\ last.kind = "permanent" /\ last.isTemplate
  /\ last.ok
  /\ nextInst > 0
  /\ everCompleted # {}

\* no row, template or stats, is left of template pid in store S
TemplateGone(S, pid) ==
  /\ {i \in S.inst : i.templateId = pid} = {}
  /\ {t \in S.tpl : t.permanentId = pid} = {}
  /\ GetTemplateStats(S, pid) = {}

\* C6: a deleteTask on a template that fails leaves either all of the
\* template's instance rows, template row and stats row in place, or none.
C6_TemplateDeleteAllOrNothing ==
  [][(last'.op = "deleteTask" /\ last'.kind = "permanent" /\ last'.isTemplate
        /\ ~last'.ok)
       => \/ UNCHANGED <<templates, template_instances, template_stats>>
          \/ TemplateGone(Store', last'.permanentId)]_vars

\* the row savePermanentInstance writes for instance id of template pid
InstanceRow(id, pid) == [instanceId |-> id, templateId |-> pid, dueDate |-> 0]

\* C7: in a completeTask on a permanent instance the stats are updated only
\* after the instance write and the next instance is written only after the
\* stats update; unless the instance write or the stats update itself throws,
\* completeTask returns the task completed with both effects in the store,
\* whatever happens to the next-instance step.
C7_CompletionOrderAndSpawnFailure ==
  [][(last'.op = "completeTask" /\ last'.kind = "permanent" /\ ~last'.rejected)
       => LET id      == last'.id
              pid     == last'.permanentId
              statsUp == CompletionCount(Store', pid) = CompletionCount(Store, pid) + 1
              written == /\ InstanceRow(id, pid) \in template_instances'
                         /\ \A t \in templates : t.permanentId = pid =>
                              \E u \in templates' :
                                 /\ u.permanentId = pid
                                 /\ u.instanceCount >= t.instanceCount + 1
              spawned == \E i \in template_instances' \ template_instances :
                            i.instanceId # id
          IN  /\ statsUp => written
              /\ spawned => statsUp
              /\ last'.fault \notin 1..3 =>
                   (last'.ok /\ last'.retCompleted /\ written /\ statsUp)]_vars

\* C7 witness: a statement of the next-instance write threw and completeTask
\* still returned.
C7_Witness ==
  /\ last.op = "completeTask" /\ last.kind = "permanent"
  /\ last.fault \in 4..5
  /\ last.ok /\ last.retCompleted
  /\ CompletionCount(Store, last.permanentId) > 0

\* C8: after completeTask succeeds on an instance whose template has a
\* recurrence with a recognised interval, exactly one new instance row of that
\* template exists, it is not completed, and its stored due date is the next
\* due date computed from the completed instance's due date.
C8_SpawnedInstanceDue ==
  \A t \in templates, now \in NowDays :
    (/\ last.op = "completeTask" /\ last.ok
     /\ InstanceRow(last.id, t.permanentId) \in template_instances
     /\ NextDueDate(ParseRepeat(t.autoRepeat), last.retDue, now).ok)
      => /\ last.spawned # 0
         /\ \E i \in InstanceRowsOf(t.permanentId) :
              /\ i.instanceId = last.spawned
              /\ i.dueDate = NextDueDate(ParseRepeat(t.autoRepeat),
                                         last.retDue, now).date
         /\ \A i \in GetInstanceById(Store, last.spawned) : ~i.completed

WeeklyMonday == Repeat("weekly", 1, Undef)

\* C9 (as claimed): weekly recurrence anchored on Monday with reference date
\* Wednesday 2024-01-03 gives Monday 2024-01-08.
C9_WeeklyMondayFromWednesday_Claimed ==
  (sched.done /\ sched.repeat = WeeklyMonday /\ sched.ref = MakeDate(2024, 1, 3))
    => (sched.ok /\ sched.out = MakeDate(2024, 1, 8))

\* C9 (amended): weekly recurrence anchored on Monday with reference date
\* Wednesday 2024-01-03 gives Monday 2024-01-15, the first Monday on or after
\* the reference date plus seven days.
C9_WeeklyMondayFromWednesday ==
  (sched.done /\ sched.repeat = WeeklyMonday /\ sched.ref = MakeDate(2024, 1, 3))
    => (sched.ok /\ sched.out = MakeDate(2024, 1, 15))

\* C9 witness: the scheduler has run on weekly/Monday from 2024-01-03.
C9_Witness ==
  sched.done /\ sched.repeat = WeeklyMonday /\ sched.ref = MakeDate(2024, 1, 3)

\* C10: for weekly recurrence with weekday anchor a and reference date r the
\* next due date falls on weekday a, is r + 7 + k days with k in 0..6 (k = 0
\* when r + 7 is on weekday a) and is never before r + 7.
C10_WeeklyAnchorForward ==
  (sched.done /\ sched.repeat.interval = "weekly"
     /\ sched.repeat.dayOfWeek \in 0..6)
    => /\ sched.ok
       /\ GetDay(sched.out) = sched.repeat.dayOfWeek
       /\ sched.out >= sched.ref + 7
       /\ sched.out - (sched.ref + 7) \in 0..6
       /\ GetDay(sched.ref + 7) = sched.repeat.dayOfWeek
            => sched.out = sched.ref + 7

\* C10 witness: an anchored weekly date that had to move six days past r + 7.
C10_Witness ==
  /\ sched.done /\ sched.repeat.interval = "weekly"
  /\ sched.repeat.dayOfWeek \in 0..6
  /\ sched.out = sched.ref + 13

\* C11: for monthly recurrence with day-of-month anchor d and reference date
\* r, when day d exists in the calendar month that follows r's month, the next
\* due date is day d of that following month.
C11_MonthlyAnchorNextMonth ==
  (sched.done /\ sched.repeat.interval = "monthly"
     /\ sched.repeat.dayOfMonth # Undef
     /\ sched.repeat.dayOfMonth
          <= DaysInMonth(YearOf(MakeDate(YearOf(sched.ref), MonthOf(sched.ref) + 1, 1)),
                         MonthOf(MakeDate(YearOf(sched.ref), MonthOf(sched.ref) + 1, 1))))
    => /\ sched.ok
       /\ sched.out = MakeDate(YearOf(sched.ref), MonthOf(sched.ref) + 1,
                               sched.repeat.dayOfMonth)

\* the recurrence configs stored for the template of the latest operation
RecurrenceOf(pid) ==
  {ParseRepeat(t.autoRepeat) : t \in {x \in templates : x.permanentId = pid}}

\* C12: when the recurrence of an instance's template has an interval that is
\* none of daily, weekly, monthly, computing the next due date fails without a
\* fallback date and the completeTask that triggered it fails with that error.
C12_UnknownIntervalReachesCaller ==
  (/\ last.op = "completeTask" /\ last.kind = "permanent"
   /\ ~last.rejected /\ last.fault = 0
   /\ \E a \in RecurrenceOf(last.permanentId) :
        a.present /\ a.interval \notin {"daily", "weekly", "monthly"})
    => /\ \A a \in RecurrenceOf(last.permanentId), now \in NowDays :
            ~NextDueDate(a, last.retDue, now).ok
       /\ last.spawned = 0
       /\ ~last.ok

\* C13: a completeTask on a permanent instance calls the scheduler exactly
\* when the template has a recurrence config with enabled = true; without a
\* config or with enabled = false no instance is spawned.
C13_SpawnIffEnabled ==
  (/\ last.op = "completeTask" /\ last.kind = "permanent"
   /\ ~last.rejected /\ last.fault = 0)
    => LET enabledOn == \E a \in RecurrenceOf(last.permanentId) :
                           a.present /\ a.enabled
       IN  /\ last.scheduled <=> enabledOn
           /\ ~enabledOn => last.spawned = 0

\* number of instances ever created for template pid
CreatedFor(pid) == Cardinality({c \in created : c[1] = pid})

\* C15: each template's completionCount is at most the number of instances
\* ever created for that template.
C15_CompletionsAtMostCreated ==
  \A x \in template_stats : x.completionCount <= CreatedFor(x.templateId)

\* C16: every router operation called for kind preset fails with an error and
\* changes no table.
C16_PresetNotImplemented ==
  [][(last'.kind = "preset"
        /\ last'.op \in {"createTask", "completeTask", "deleteTask",
                         "reassignTask", "pushTaskForward"})
       => (~last'.ok /\ UNCHANGED Tables)]_vars

\* C17: pushTaskForward on a permanent template is rejected with an error and
\* changes no table, for every number of days.
C17_PushTemplateRejected ==
  [][(last'.op = "pushTaskForward" /\ last'.kind = "permanent"
        /\ last'.isTemplate)
       => (~last'.ok /\ last'.rejected /\ UNCHANGED Tables)]_vars

\* C17 witness: a push of a template that has an instance has been rejected.
C17_Witness ==
  /\ last.op = "pushTaskForward" /\ last.kind = "permanent" /\ last.isTemplate
  /\ last.rejected
  /\ \E t \in templates : t.permanentId = last.id /\ t.instanceCount > 0

\* C20: after createTask with a due date, reassignTask with a new due date or
\* pushTaskForward on a permanent instance, the due date stored in the
\* instance's template_instances row and the due_date of its tasks row both
\* equal the due date of the returned Task.
C20_DueDateRoundTrip ==
  (/\ last.ok
   /\ last.op \in {"createTask", "reassignTask", "pushTaskForward"}
   /\ \E i \in template_instances : i.instanceId = last.retId)
    => /\ \A i \in template_instances :
            i.instanceId = last.retId => i.dueDate = last.retDue
       /\ \A r \in tasks : r.id = last.retId => r.due_date = last.retDue

\* C18: after reassignTask on a permanent template has returned,
\* getTemplateById gives the template with the new title as templateTitle, the
\* new location and the new recurrence config, for each of these the updates
\* carried.
C18_TemplateUpdatesPersisted ==
  (/\ last.op = "reassignTask" /\ last.kind = "permanent" /\ last.isTemplate
   /\ last.ok)
    => /\ TemplateRows(Store, last.permanentId) # {}
       /\ LET t == GetTemplateById(Store, last.permanentId)
              u == last.updates
          IN  /\ u.title # "" => t.templateTitle = u.title
              /\ u.location # "" => t.location = u.location
              /\ u.hasMetadata => t.autoRepeat = u.metadata.autoRepeat

\* C19: after reassignTask on a permanent task has returned, the returned Task
\* has the permanentId and template flag of the task it was called with, and
\* the record persisted for that task has them too.
C19_ReassignKeepsIdentity ==
  (last.op = "reassignTask" /\ last.kind = "permanent" /\ last.ok)
    => /\ last.retPermanentId = last.permanentId
       /\ last.retIsTemplate = last.isTemplate
       /\ IF last.isTemplate
          THEN TemplateRows(Store, last.permanentId) # {}
          ELSE InstanceRow(last.id, last.permanentId) \in template_instances

\* sum of the seven weekday counters of a stats row
SumDays(x) ==
  x.days[0] + x.days[1] + x.days[2] + x.days[3] + x.days[4] + x.days[5] + x.days[6]

\* the stats row of template pid among rows, a zero row when there is none
StatsRowOf(rows, pid) ==
  IF \E x \in rows : x.templateId = pid
  THEN CHOOSE x \in rows : x.templateId = pid
  ELSE ZeroStats(pid)

\* C14: in every state each stats row has currentStreak = maxStreak =
\* completionCount = sum of the weekday counters, and every
\* updateTemplateStats call raises each of them by exactly 1, incrementing
\* only the counter of completedAt's day of the week.
C14_StatsCountersAgree ==
  [][/\ \A x \in template_stats' :
          /\ x.currentStreak = x.maxStreak
          /\ x.maxStreak = x.completionCount
          /\ x.completionCount = SumDays(x)
     /\ last'.op = "updateTemplateStats" =>
          LET old == StatsRowOf(template_stats, last'.permanentId)
              new == StatsRowOf(template_stats', last'.permanentId)
          IN  /\ \E x \in template_stats' : x.templateId = last'.permanentId
              /\ new.completionCount = old.completionCount + 1
              /\ new.currentStreak = old.currentStreak + 1
              /\ new.maxStreak = old.maxStreak + 1
              /\ new.days = [old.days EXCEPT ![GetDay(last'.at)] = @ + 1]
    ]_vars

\* C14 witness: three completions recorded for a fresh template on three
\* different days of the week.
C14_Witness ==
  /\ last.op = "updateTemplateStats"
  /\ \E x \in template_stats :
       /\ x.templateId = last.permanentId
       /\ x.currentStreak = 3 /\ x.maxStreak = 3 /\ SumDays(x) = 3
       /\ Cardinality({d \in 0..6 : x.days[d] = 1}) = 3

\* C21: a savePermanentTemplate of a template with the field values it is
\* stored with leaves the number of templates getAllTemplates returns, every
\* field of the template and the template's stats record unchanged.
C21_SaveTemplateIdempotent ==
  [][(last'.op = "savePermanentTemplate" /\ last'.updates = NoUpdate)
       => /\ Cardinality(GetAllTemplates(Store')) = Cardinality(GetAllTemplates(Store))
          /\ GetAllTemplates(Store') = GetAllTemplates(Store)
          /\ GetTemplateStats(Store', last'.permanentId)
               = GetTemplateStats(Store, last'.permanentId)
          /\ UNCHANGED Tables]_vars

\* C21 witness: a template with a recurrence, an instance and a recorded
\* completion has just been saved again unchanged.
C21_Witness ==
  /\ last.op = "savePermanentTemplate" /\ last.updates = NoUpdate
  /\ \E t \in templates : /\ t.permanentId = last.permanentId
                          /\ t.autoRepeat # <<>>
                          /\ t.instanceCount > 0
  /\ CompletionCount(Store, last.permanentId) > 0

\* C22: a savePermanentInstance of an instance that is already stored leaves
\* all four tables unchanged, the owning template's instanceCount included.
C22_SaveInstanceIdempotent ==
  [][last'.op = "savePermanentInstance"
       => /\ UNCHANGED Tables
          /\ \A t \in templates : \E u \in templates' :
                /\ u.permanentId = t.permanentId
                /\ u.instanceCount = t.instanceCount]_vars

\* instanceCount stored for template pid among rows (0 without a row)
InstanceCountIn(rows, pid) ==
  IF \E t \in rows : t.permanentId = pid
  THEN (CHOOSE t \in rows : t.permanentId = pid).instanceCount
  ELSE 0

\* C23: a deleteTask on a permanent instance whose row exists removes exactly
\* that row and lowers the owning template's instanceCount by exactly one; no
\* instanceCount is ever negative; and a deleteTask for a row that no longer
\* exists does not lower the count below the number of remaining instances.
C23_InstanceDeleteCount ==
  [][/\ \A t \in templates' : t.instanceCount >= 0
     /\ (last'.op = "deleteTask" /\ last'.kind = "permanent"
           /\ ~last'.isTemplate /\ last'.ok)
          => LET pid     == last'.permanentId
                 row     == InstanceRow(last'.id, pid)
                 before  == InstanceCountIn(templates, pid)
                 after   == InstanceCountIn(templates', pid)
                 remain  == Cardinality({i \in template_instances' :
                                           i.templateId = pid})
             IN  IF row \in template_instances
                 THEN /\ template_instances' = template_instances \ {row}
                      /\ (\E t \in templates : t.permanentId = pid)
                           => after = before - 1
                 ELSE /\ template_instances' = template_instances
                      /\ after < before => after >= remain
    ]_vars

\* C24: a step writes an instance row only for a template that exists when
\* the step starts (createTask with templateId, the auto-spawn, and the
\* instance write of completeTask, reassignTask and pushTaskForward), and a
\* createTask naming a template that does not exist fails and changes no
\* table.
C24_InstanceWriteNeedsTemplate ==
  [][/\ \A i \in template_instances' \ template_instances :
          TemplateRows(Store, i.templateId) # {}
     /\ (/\ last'.op \in {"completeTask", "reassignTask", "pushTaskForward"}
         /\ last'.kind = "permanent" /\ ~last'.isTemplate /\ last'.ok)
          => TemplateRows(Store, last'.permanentId) # {}
     /\ (last'.op = "createTask" /\ last'.rejected)
          => (~last'.ok /\ UNCHANGED Tables)
    ]_vars

\* C25: a permanent instance has a row in tasks exactly when it has a row in
\* template_instances, so getAllTasks lists the instances made by
\* use-template and by auto-spawn and none that deleteTask removed.
C25_TasksListsInstances ==
  /\ {r.id : r \in tasks} \ TplIds = {i.instanceId : i \in template_instances}
  /\ {t.id : t \in GetAllTasks(Store)} \ TplIds
       = {i.instanceId : i \in template_instances}

\* C26: a completeTask that succeeds on a permanent instance raises the
\* completionCount of the instance's template by exactly 1 and leaves every
\* other stats row as it was, for the Task createTask returned and for the
\* Task of the same instance read back with getAllTasks.
C26_CompletionCountsOnce ==
  [][\A i \in template_instances :
       (last'.op = "completeTask" /\ last'.ok /\ last'.id = i.instanceId)
         => /\ CompletionCount(Store', i.templateId)
                 = CompletionCount(Store, i.templateId) + 1
            /\ \A x \in template_stats :
                 x.templateId # i.templateId => x \in template_stats'
            /\ \A x \in template_stats' :
                 x.templateId # i.templateId => x \in template_stats
    ]_vars

\* first day of the calendar month after the month of day ref
TargetMonth(ref) == MakeDate(YearOf(ref), MonthOf(ref) + 1, 1)

\* C27: for monthly recurrence whose anchor day d does not exist in the
\* target month (the month after the reference date's), the next due date is
\* day d minus the target month's length of the month after the target month,
\* never the target month's last day; anchor 31 from 2024-01-15 gives
\* 2024-03-02.
C27_MonthlyOverflowPolicy ==
  /\ (/\ sched.done /\ sched.repeat.interval = "monthly"
      /\ sched.repeat.dayOfMonth # Undef
      /\ sched.repeat.dayOfMonth
           > DaysInMonth(YearOf(TargetMonth(sched.ref)),
                         MonthOf(TargetMonth(sched.ref))))
       => LET first == TargetMonth(sched.ref)
              len   == DaysInMonth(YearOf(first), MonthOf(first))
          IN  /\ sched.ok
              /\ sched.out = first + len + (sched.repeat.dayOfMonth - len) - 1
              /\ sched.out # first + len - 1
  /\ (/\ sched.done /\ sched.repeat = Repeat("monthly", Undef, 31)
      /\ sched.ref = MakeDate(2024, 1, 15))
       => (sched.ok /\ sched.out = MakeDate(2024, 3, 2))

\* C28: every row of template_instances and every row of template_stats
\* references a template that exists; a template that was deleted gets no
\* instance row and no stats row back from an operation on a Task obtained
\* before the deletion.
C28_NoRowsOfDeletedTemplate ==
  /\ \A i \in template_instances :
       \E t \in templates : t.permanentId = i.templateId
  /\ \A x \in template_stats :
       \E t \in templates : t.permanentId = x.templateId

\* C29: a reassignTask on a template leaves the instanceCount stored for the
\* template as it was, whatever instanceCount the Task passed in carries.
C29_ReassignKeepsInstanceCount ==
  [][(/\ last'.op = "reassignTask" /\ last'.kind = "permanent"
      /\ last'.isTemplate /\ last'.ok
      /\ \E t \in templates : t.permanentId = last'.permanentId)
       => InstanceCountIn(templates', last'.permanentId)
            = InstanceCountIn(templates, last'.permanentId)]_vars

\* C30: of two completeTask calls for the same instance, the second started
\* before the first returned, at most one records a completion: the
\* template's completionCount rises by at most 1 over the value the first
\* call found, and at most one next instance is spawned.
C30_OverlappingCallsCountOnce ==
  \A c1, c2 \in 1..MaxCalls :
    (/\ c1 # c2
     /\ calls[c1].pc \notin {"idle", "threw"}
     /\ calls[c2].pc \notin {"idle", "threw"}
     /\ calls[c1].task.id = calls[c2].task.id)
      => /\ ~(calls[c1].recorded /\ calls[c2].recorded)
         /\ CompletionCount(Store, calls[c1].task.permanentId)
              <= calls[c1].base + 1
         /\ ~(calls[c1].spawned # 0 /\ calls[c2].spawned # 0)

====
